---- MODULE Spec2Model ----
(***************************************************************************)
(* A model of notanorm's PostgresDb (src/notanorm/postgres.py): the DDL    *)
(* generator (create_table, _create_index), the upsert clause builder      *)
(* (_upsert_sql), the reverse type mapping (column_model) and the model    *)
(* normalizer (simplify_model).                                            *)
(*                                                                         *)
(* PostgresDb keeps no state of its own between calls.  The state of the   *)
(* model is one call of the API: which operation ran (op), its arguments   *)
(* (arg), what it returned (ret), what it raised (raised) and the          *)
(* statements it handed to the Database collaborator's query/execute       *)
(* (sent).                                                                 *)
(*                                                                         *)
(* Python values:  an optional value is a sequence, <<>> for None and      *)
(* <<v>> for v;  a dict is the sequence of its items in insertion order;   *)
(* SQL text is kept as the record of the parts the code puts into it.      *)
(***************************************************************************)
EXTENDS Integers, Sequences, FiniteSets, TLC

VARIABLES op, arg, ret, raised, sent

vars == <<op, arg, ret, raised, sent>>

\* ------------------------------------------------------------------ bounds

\* A multi-table Model has at most MaxTables tables.
MaxTables == 2

\* Index names are drawn this many characters around max_index_name.
MaxNameOver == 2

\* ------------------------------------------------------------- Python values

None == <<>>

Some(v) == <<v>>

\* Python truthiness of an optional int: None and 0 are falsy.
Truthy(size) == size # None /\ size[1] # 0

InSeq(x, s) == \E k \in 1..Len(s) : s[k] = x

\* ------------------------------------------------------------- schema model

DbType == {"TEXT", "BLOB", "INTEGER", "BOOLEAN", "FLOAT", "DOUBLE", "ANY"}

DbColCustomInfo(dialect, info) == [dialect |-> dialect, info |-> info]

DbCol(name, typ, size, notnull, autoinc, custom) ==
    [name |-> name, typ |-> typ, size |-> size, fixed |-> FALSE,
     notnull |-> notnull, default |-> None, autoinc |-> autoinc,
     custom |-> custom]

DbIndexField(name) == [name |-> name, prefix_len |-> None]

DbIndex(fields, unique, primary, name) ==
    [fields |-> fields, unique |-> unique, primary |-> primary, name |-> name]

DbTable(columns, indexes) == [columns |-> columns, indexes |-> indexes]

\* ------------------------------------------------------------ simplify_model

\* for index in tab.indexes: if index.primary: primary_fields = tuple(...)
\* (a Table has at most one primary Index); primary_fields is left as it was
\* when no index of the table is primary.
PrimaryScan(indexes, primary_fields) ==
    IF \E i \in indexes : i.primary
    THEN LET idx == CHOOSE i \in indexes : i.primary
         IN  [k \in 1..Len(idx.fields) |-> idx.fields[k].name]
    ELSE primary_fields

\* SimplifyCol without d["notnull"] = True.
SimplifyColNoForce(col, primary_fields) ==
    IF col.typ = "INTEGER" /\ ~Truthy(col.size)
    THEN [col EXCEPT !.size = Some(8)]
    ELSE col

\* SimplifyCol with the size of a sized INTEGER cleared instead of kept.
SimplifyColSwapSize(col, primary_fields) ==
    LET d1 == IF col.typ = "INTEGER"
              THEN [col EXCEPT !.size = IF Truthy(col.size) THEN None ELSE Some(8)]
              ELSE col
    IN  IF InSeq(col.name, primary_fields)
        THEN [d1 EXCEPT !.notnull = TRUE]
        ELSE d1

\* The body of the loop over tab.columns.
SimplifyCol(col, primary_fields) ==
    LET d1 == IF col.typ = "INTEGER" /\ ~Truthy(col.size)
              THEN [col EXCEPT !.size = Some(8)]
              ELSE col
        d2 == IF InSeq(col.name, primary_fields)
              THEN [d1 EXCEPT !.notnull = TRUE]
              ELSE d1
        d3 == IF col.custom # None /\ col.custom[1].dialect = "postgres"
              THEN [d2 EXCEPT !.custom = col.custom]
              ELSE d2
    IN  d3

\* The loop over model.items(), from item i on; primary_fields is the local
\* that is set once before the loop and carried from one table to the next.
RECURSIVE SimplifyTables(_, _, _)
SimplifyTables(model, i, primary_fields) ==
    IF i > Len(model)
    THEN <<>>
    ELSE LET tab  == model[i].tab
             pf   == PrimaryScan(tab.indexes, primary_fields)
             cols == [k \in 1..Len(tab.columns) |->
                          SimplifyCol(tab.columns[k], pf)]
         IN  <<[nam |-> model[i].nam, tab |-> DbTable(cols, tab.indexes)]>>
                 \o SimplifyTables(model, i + 1, pf)

simplify_model(model) == SimplifyTables(model, 1, <<>>)

\* ------------------------------------------------------------- type mapping

max_index_name == 63

\* A native type string: a type name and, when the string ends with a
\* parenthesised number, that number.  "text" is NativeType("text", None) and
\* "varchar(255)" is NativeType("varchar", Some(255)).
NativeType(name, param) == [name |-> name, param |-> param]

type_map(typ) ==
    CASE typ = "TEXT"    -> "text"
      [] typ = "BLOB"    -> "bytea"
      [] typ = "INTEGER" -> "bigint"
      [] typ = "BOOLEAN" -> "boolean"
      [] typ = "FLOAT"   -> "real"
      [] typ = "DOUBLE"  -> "double precision"
      [] typ = "ANY"     -> ""

\* {v: k for k, v in _type_map.items()}, with .get(col_type, DbType.ANY).
type_map_inverse_get(native) ==
    IF \E t \in DbType : type_map(t) = native
    THEN CHOOSE t \in DbType : type_map(t) = native
    ELSE "ANY"

\* _type_map_custom.get(col_type, None)
type_map_custom_get(native) ==
    IF native \in {"text", "bytea"}
    THEN Some(DbColCustomInfo("postgres", native))
    ELSE None

\* The integer-width table of the dialect: integer size -> native type.
int_map_keys == {2, 4, 8}

int_map(size) ==
    CASE size = 2 -> "smallint"
      [] size = 4 -> "integer"
      [] size = 8 -> "bigint"

\* -------------------------------------------------------------- create_table

\* The if/elif chain that resolves a column's native type.  The result is
\* [raised, typ]; an unknown postgres custom info fails the assertion.
ColType(col) ==
    IF col.custom # None /\ col.typ = "TEXT" /\ col.custom[1].dialect = "postgres"
    THEN IF col.custom[1].info = "text"
         THEN [raised |-> "none", typ |-> NativeType("text", None)]
         ELSE IF col.custom[1].info = "bytea"
         THEN [raised |-> "none", typ |-> NativeType("bytea", None)]
         ELSE [raised |-> "AssertionError", typ |-> NativeType("", None)]
    ELSE IF Truthy(col.size) /\ col.typ = "TEXT"
    THEN [raised |-> "none", typ |-> NativeType("varchar", col.size)]
    ELSE IF Truthy(col.size) /\ col.typ = "BLOB"
    THEN [raised |-> "none", typ |-> NativeType("bytea", None)]
    ELSE IF Truthy(col.size) /\ col.typ = "INTEGER" /\ col.size[1] \in int_map_keys
    THEN [raised |-> "none", typ |-> NativeType(int_map(col.size[1]), None)]
    ELSE [raised |-> "none", typ |-> NativeType(type_map(col.typ), None)]

\* AutoincCheck with "col.name not in primary_fields" as its test.
AutoincCheckMember(col, primary_fields) ==
    IF col.autoinc /\ ~InSeq(col.name, primary_fields) THEN "SchemaError" ELSE "none"

\* if col.autoinc: if (col.name,) != primary_fields: raise err.SchemaError
AutoincCheck(col, primary_fields) ==
    IF col.autoinc /\ <<col.name>> # primary_fields THEN "SchemaError" ELSE "none"

\* One pass of the loop over schema.columns: [raised, coldef].
ColDef(col, primary_fields) ==
    LET t == ColType(col)
        coldef == [name    |-> col.name,
                   typ     |-> t.typ,
                   notnull |-> col.notnull,
                   default |-> col.default,
                   serial  |-> col.autoinc]
    IN  IF t.raised # "none"
        THEN [raised |-> t.raised, coldef |-> coldef]
        ELSE [raised |-> AutoincCheck(col, primary_fields), coldef |-> coldef]

\* The loop over schema.columns from column i on: [raised, coldefs].  The
\* first column that raises ends the loop.
RECURSIVE ColDefs(_, _, _)
ColDefs(columns, i, primary_fields) ==
    IF i > Len(columns)
    THEN [raised |-> "none", coldefs |-> <<>>]
    ELSE LET d == ColDef(columns[i], primary_fields)
         IN  IF d.raised # "none"
             THEN [raised |-> d.raised, coldefs |-> <<>>]
             ELSE LET rest == ColDefs(columns, i + 1, primary_fields)
                  IN  [raised  |-> rest.raised,
                       coldefs |-> <<d.coldef>> \o rest.coldefs]

\* sql.SQL("CREATE TABLE {} ({});").format(Identifier(name), coldefs): the
\* text between CREATE TABLE and the table name is part of the template.
CreateStatement(name, coldefs, primary_fields) ==
    [kind        |-> "CREATE TABLE",
     qualifier   |-> "",
     name        |-> name,
     coldefs     |-> coldefs,
     primary_key |-> primary_fields]

\* ------------------------------------------------------------- create_index

\* An index name: its text up to truncation (stem) and its length.
IndexName(stem, len) == [stem |-> stem, len |-> len]

\* _create_index(table_name, index_name, idx): the statement it executes.
create_index_stmt(table_name, index_name, idx) ==
    [kind   |-> "CREATE INDEX",
     unique |-> idx.unique,
     name   |-> index_name,
     table  |-> table_name,
     fields |-> [k \in 1..Len(idx.fields) |->
                    [name       |-> idx.fields[k].name,
                     identifier |-> idx.fields[k].prefix_len = None,
                     prefix_len |-> idx.fields[k].prefix_len]]]

\* create_index handing the name to _create_index as it is.
create_index_unchecked(table_name, idx) ==
    {[raised |-> "none",
      sent   |-> <<create_index_stmt(table_name, idx.name[1], idx)>>]}

\* create_index of the base class: the name the index is created under is
\* brought within max_index_name before _create_index runs, by rejecting the
\* request or by truncating the name.  The set of [raised, sent] outcomes.
create_index(table_name, idx) ==
    LET index_name == idx.name[1]
    IN  IF index_name.len > max_index_name
        THEN {[raised |-> "IndexNameError", sent |-> <<>>],
              [raised |-> "none",
               sent   |-> <<create_index_stmt(
                                table_name,
                                [index_name EXCEPT !.len = max_index_name],
                                idx)>>]}
        ELSE {[raised |-> "none",
               sent   |-> <<create_index_stmt(table_name, index_name, idx)>>]}

\* create_indexes of the base class: create_index for every non-primary
\* Index of the table, until one raises.  The set of [raised, sent] outcomes.
RECURSIVE create_indexes_from(_, _)
create_indexes_from(table_name, indexes) ==
    IF indexes = {}
    THEN {[raised |-> "none", sent |-> <<>>]}
    ELSE UNION {
           UNION {
             IF first.raised # "none"
             THEN {first}
             ELSE {[raised |-> rest.raised, sent |-> first.sent \o rest.sent] :
                      rest \in create_indexes_from(table_name, indexes \ {idx})}
             : first \in create_index(table_name, idx)}
           : idx \in indexes}

create_indexes(table_name, schema) ==
    create_indexes_from(table_name, {i \in schema.indexes : ~i.primary})

\* create_table(name, schema, ignore_existing, create_indexes): the set of
\* [raised, sent] outcomes.
create_table(name, schema, ignore_existing, with_indexes) ==
    LET primary_fields == PrimaryScan(schema.indexes, <<>>)
        r      == ColDefs(schema.columns, 1, primary_fields)
        ignore == IF ignore_existing THEN "IF NOT EXISTS " ELSE ""
        create == CreateStatement(name, r.coldefs, primary_fields)
    IN  IF r.raised # "none"
        THEN {[raised |-> r.raised, sent |-> <<>>]}
        ELSE IF with_indexes
        THEN {[raised |-> x.raised, sent |-> <<create>> \o x.sent] :
                 x \in create_indexes(name, schema)}
        ELSE {[raised |-> "none", sent |-> <<create>>]}

\* -------------------------------------------------------------- _upsert_sql

\* _get_primary(table): the set of the attnames the catalog query returns for
\* the table's primary index, whose fields in index order are `primary`.
get_primary(primary) == {primary[k] : k \in 1..Len(primary)}

\* The catalog query _get_primary hands to query.
GetPrimaryQuery(table) == [kind |-> "SELECT", from |-> "pg_index", table |-> table]

\* primary_fields of the base class: what _get_primary returns.
primary_fields_of(primary) == get_primary(primary)

\* inssql + " ON CONFLICT (target) action[ setsql]"
UpsertStatement(inssql, target, action, setsql) ==
    [insert |-> inssql, conflict_target |-> target, action |-> action,
     set |-> setsql]

\* _upsert_sql(table, inssql, insvals, setsql, setvals) on a table whose
\* primary index has the fields `primary`: the set of [raised, ret]
\* outcomes.  next(iter(fields)) takes the element a Python set yields
\* first, which may be any of its elements, and raises StopIteration on the
\* empty set.
upsert_sql(primary, inssql, insvals, setsql, setvals) ==
    IF setvals = <<>>
    THEN LET fields == primary_fields_of(primary)
         IN  IF fields = {}
             THEN {[raised |-> "StopIteration", ret |-> <<>>]}
             ELSE {[raised |-> "none",
                    ret |-> [sql  |-> UpsertStatement(inssql, <<f0>>,
                                                      "DO NOTHING", None),
                             vals |-> insvals]] : f0 \in fields}
    ELSE {[raised |-> "none",
           ret |-> [sql  |-> UpsertStatement(inssql, setvals,
                                             "DO UPDATE SET", Some(setsql)),
                    vals |-> insvals]]}

\* -------------------------------------------------------------- column_model

\* re.match(r"(character varying|character|text)\((\d+)\)", col_type)
match_t(col_type) ==
    col_type.name \in {"character varying", "character", "text"}
        /\ col_type.param # None

\* re.match(r"(bytea)\((\d+)\)", col_type)
match_b(col_type) == col_type.name = "bytea" /\ col_type.param # None

column_model(col_name, col_type, is_nullable, col_default, is_auto_increment, in_primary) ==
    LET typ == IF match_t(col_type) THEN "TEXT"
               ELSE IF match_b(col_type) THEN "BLOB"
               ELSE IF col_type.param = None
                    THEN type_map_inverse_get(col_type.name)
                    ELSE "ANY"
        size == IF match_t(col_type) THEN col_type.param ELSE None
        fixed == col_type.name = "character" /\ col_type.param = None
        custom == IF col_type.param = None
                  THEN type_map_custom_get(col_type.name)
                  ELSE None
        autoinc_primary == in_primary /\ is_auto_increment
    IN  [name    |-> col_name,
         typ     |-> typ,
         size    |-> size,
         fixed   |-> fixed,
         notnull |-> is_nullable = "NO" /\ ~autoinc_primary,
         default |-> col_default,
         autoinc |-> is_auto_increment,
         custom  |-> custom]

\* ------------------------------------------------------------------- inputs

ColNames == <<"a", "b">>

TableNames == <<"t1", "t2", "t3", "t4">>

Customs == {None,
            Some(DbColCustomInfo("postgres", "text")),
            Some(DbColCustomInfo("postgres", "bytea")),
            Some(DbColCustomInfo("mysql", "mediumblob"))}

Sizes == {None, Some(0), Some(4), Some(255)}

\* Columns named nm, every type and flag varied (no autoinc).
RichCols(nm) ==
    {DbCol(nm, t, s, nn, FALSE, c) :
        t \in {"INTEGER", "TEXT", "BLOB"}, s \in {None, Some(0), Some(4)},
        nn \in BOOLEAN,
        c \in {None, Some(DbColCustomInfo("postgres", "text")),
               Some(DbColCustomInfo("mysql", "mediumblob"))}}

\* Columns named nm that differ in nullability only.
LeanCols(nm) == {DbCol(nm, "INTEGER", None, nn, FALSE, None) : nn \in BOOLEAN}

\* Columns named nm for DDL generation: every type, size, custom and flag.
DdlCols(nm) ==
    {DbCol(nm, t, s, nn, ai, c) :
        t \in DbType, s \in Sizes, nn \in BOOLEAN, ai \in BOOLEAN, c \in Customs}

\* Columns named nm that differ in autoinc and nullability only.
AutoCols(nm) ==
    {DbCol(nm, "INTEGER", None, nn, ai, None) : nn \in BOOLEAN, ai \in BOOLEAN}

\* Column lists <<a>> and <<a, b>>.
ColLists(Cols(_)) ==
    {<<c>> : c \in Cols(ColNames[1])}
        \cup {<<c, d>> : c \in Cols(ColNames[1]), d \in Cols(ColNames[2])}

PrimaryIndex(names) ==
    DbIndex([k \in 1..Len(names) |-> DbIndexField(names[k])], TRUE, TRUE, None)

\* No primary key, a single-field one, a composite one.
IndexSets == {{}, {PrimaryIndex(<<"a">>)}, {PrimaryIndex(<<"b">>)},
              {PrimaryIndex(<<"a", "b">>)}}

RichTables == {DbTable(cs, ix) : cs \in ColLists(RichCols), ix \in IndexSets}

LeanTables == {DbTable(cs, ix) : cs \in ColLists(LeanCols), ix \in IndexSets}

\* A DbModel of n tables drawn from Tabs, named t1..tn in insertion order.
ModelsOf(Tabs, n) ==
    {[k \in 1..n |-> [nam |-> TableNames[k], tab |-> f[k]]] : f \in [1..n -> Tabs]}

Models ==
    ModelsOf(RichTables, 1) \cup UNION {ModelsOf(LeanTables, n) : n \in 2..MaxTables}

NameLens == (max_index_name - MaxNameOver)..(max_index_name + MaxNameOver)

\* Named non-primary indexes on a, or on a and b.
SecondaryIndexes ==
    {DbIndex(fs, u, FALSE, Some(IndexName("ix", n))) :
        fs \in {<<[name |-> "a", prefix_len |-> pl]>> : pl \in {None, Some(8)}}
               \cup {<<DbIndexField("a"), DbIndexField("b")>>},
        u \in BOOLEAN, n \in NameLens}

\* For create_table: no non-primary index, one with a name within the
\* limit, one with a name beyond it.
DdlSecondary ==
    {{}} \cup {{DbIndex(<<DbIndexField("a")>>, TRUE, FALSE, Some(IndexName("ix", n)))} :
                  n \in {max_index_name, max_index_name + 1}}

DdlTables ==
    {DbTable(cs, ix \cup sec) :
        cs \in {<<c>> : c \in DdlCols(ColNames[1])} \cup
               {<<c, d>> : c \in AutoCols(ColNames[1]), d \in AutoCols(ColNames[2])},
        ix \in IndexSets, sec \in DdlSecondary}

\* Tables whose index set holds one or two non-primary indexes.
IndexedTables ==
    {DbTable(<<>>, {i, j}) : i \in SecondaryIndexes, j \in SecondaryIndexes}

\* The primary-key fields of the table an upsert goes to, in index order.
PrimaryKeys == {<<>>, <<"a">>, <<"b">>, <<"a", "b">>, <<"b", "a">>}

\* Update values of an upsert.
SetVals == {<<>>, <<"x">>, <<"y">>, <<"x", "y">>, <<"y", "x">>}

\* -------------------------------------------------------------- the machine

Init ==
    /\ op = "idle"
    /\ arg = <<>>
    /\ ret = <<>>
    /\ raised = "none"
    /\ sent = <<>>

\* simplify_model(model)
SimplifyModel ==
    /\ op = "idle"
    /\ \E m \in Models :
        /\ arg' = m
        /\ ret' = simplify_model(m)
    /\ op' = "simplify_model"
    /\ UNCHANGED <<raised, sent>>

\* simplify_model applied to the Model the last simplify_model returned.
SimplifyAgain ==
    /\ op = "simplify_model"
    /\ arg' = ret
    /\ ret' = simplify_model(ret)
    /\ op' = "simplify_again"
    /\ UNCHANGED <<raised, sent>>

\* create_table(name, schema, ignore_existing, create_indexes)
CreateTable ==
    /\ op = "idle"
    /\ \E name \in {TableNames[1], TableNames[2]}, schema \in DdlTables,
          ignore_existing \in BOOLEAN, with_indexes \in BOOLEAN :
        /\ arg' = [name |-> name, schema |-> schema,
                   ignore_existing |-> ignore_existing,
                   create_indexes |-> with_indexes]
        /\ \E out \in create_table(name, schema, ignore_existing, with_indexes) :
            /\ raised' = out.raised
            /\ sent' = out.sent
    /\ op' = "create_table"
    /\ ret' = <<>>

\* column_model on the native type create_table rendered for a column of the
\* table it just created, as the catalog reports it back.
ColumnModel ==
    /\ op = "create_table"
    /\ sent # <<>>
    /\ \E k \in 1..Len(arg.schema.columns), is_nullable \in {"YES", "NO"} :
        LET col    == arg.schema.columns[k]
            coldef == sent[1].coldefs[k]
        IN  /\ arg' = [col |-> col, col_type |-> coldef.typ,
                       is_nullable |-> is_nullable]
            /\ ret' = column_model(coldef.name, coldef.typ, is_nullable,
                                   coldef.default, coldef.serial,
                                   InSeq(coldef.name, sent[1].primary_key))
    /\ op' = "column_model"
    /\ raised' = "none"
    /\ sent' = <<>>

\* create_indexes(name, schema)
CreateIndexes ==
    /\ op = "idle"
    /\ \E name \in {TableNames[1], TableNames[2]}, schema \in IndexedTables :
        /\ arg' = [name |-> name, schema |-> schema]
        /\ \E out \in create_indexes(name, schema) :
            /\ raised' = out.raised
            /\ sent' = out.sent
    /\ op' = "create_indexes"
    /\ ret' = <<>>

\* _upsert_sql(table, inssql, insvals, setsql, setvals), the table's primary
\* index being `primary` in the catalog.
UpsertSql ==
    /\ op = "idle"
    /\ \E table \in {TableNames[1], TableNames[2]}, primary \in PrimaryKeys,
          insvals \in {<<1>>, <<1, 2>>}, setvals \in SetVals :
        /\ arg' = [table |-> table, primary |-> primary, inssql |-> "INSERT",
                   insvals |-> insvals, setsql |-> "SET", setvals |-> setvals]
        /\ \E out \in upsert_sql(primary, "INSERT", insvals, "SET", setvals) :
            /\ raised' = out.raised
            /\ ret' = out.ret
        /\ sent' = IF setvals = <<>> THEN <<GetPrimaryQuery(table)>> ELSE <<>>
    /\ op' = "upsert_sql"

Next ==
    \/ SimplifyModel
    \/ SimplifyAgain
    \/ CreateTable
    \/ ColumnModel
    \/ CreateIndexes
    \/ UpsertSql

Spec == Init /\ [][Next]_vars

\* ------------------------------------------------------------------ claims

\* The fields of the table's own primary index, in index order; <<>> when
\* the table has none.
OwnPrimary(tab) == PrimaryScan(tab.indexes, <<>>)

\* The table has an autoinc column that is not its single primary-key field.
BadAutoinc(schema) ==
    \E k \in 1..Len(schema.columns) :
        /\ schema.columns[k].autoinc
        /\ <<schema.columns[k].name>> # OwnPrimary(schema)

\* C1: create_table raises SchemaError whenever some autoinc column is not
\* the table's single primary-key field, and then nothing has been passed to
\* query/execute; when every autoinc column is the sole primary-key field no
\* SchemaError is raised and the CREATE TABLE statement is sent.
C1_AutoincValidity ==
    op = "create_table" =>
        /\ BadAutoinc(arg.schema) => raised = "SchemaError" /\ sent = <<>>
        /\ ~BadAutoinc(arg.schema) =>
              /\ raised # "SchemaError"
              /\ sent # <<>>
              /\ sent[1].kind = "CREATE TABLE"
              /\ sent[1].name = arg.name

\* create_table rejected autoinc column a of a table whose primary key is
\* the composite (a, b).
C1_Witness ==
    /\ op = "create_table"
    /\ raised = "SchemaError"
    /\ sent = <<>>
    /\ OwnPrimary(arg.schema) = <<"a", "b">>
    /\ arg.schema.columns[1].name = "a"
    /\ arg.schema.columns[1].autoinc

\* C2: simplify_model is idempotent: applied to a Model it returned, it
\* returns that Model.
C2_Idempotent == op = "simplify_again" => ret = arg

\* The second simplify_model ran on a two-table Model in which the first
\* pass had set an integer size and forced a primary-key column not-null.
C2_Witness ==
    /\ op = "simplify_again"
    /\ Len(arg) = 2
    /\ \E i \in 1..Len(arg) : \E k \in 1..Len(arg[i].tab.columns) :
          LET col == arg[i].tab.columns[k]
          IN  /\ col.size = Some(8)
              /\ col.notnull
              /\ InSeq(col.name, OwnPrimary(arg[i].tab))

\* C3: in the Model simplify_model returns, every column named in its
\* table's primary index has notnull = TRUE.
C3_PrimaryNotNull ==
    op = "simplify_model" =>
        \A i \in 1..Len(ret) : \A k \in 1..Len(ret[i].tab.columns) :
            InSeq(ret[i].tab.columns[k].name, OwnPrimary(arg[i].tab))
                => ret[i].tab.columns[k].notnull

\* simplify_model returned a nullable column of a composite primary key as
\* not-null.
C3_Witness ==
    /\ op = "simplify_model"
    /\ \E i \in 1..Len(arg) : \E k \in 1..Len(arg[i].tab.columns) :
          /\ Len(OwnPrimary(arg[i].tab)) = 2
          /\ InSeq(arg[i].tab.columns[k].name, OwnPrimary(arg[i].tab))
          /\ ~arg[i].tab.columns[k].notnull
          /\ ret[i].tab.columns[k].notnull

\* C4: a column that is not a field of its own table's primary index keeps
\* its notnull value through simplify_model, whatever the other tables of
\* the Model are.
C4_NotNullPerTable ==
    op = "simplify_model" =>
        \A i \in 1..Len(arg) : \A k \in 1..Len(arg[i].tab.columns) :
            ~InSeq(arg[i].tab.columns[k].name, OwnPrimary(arg[i].tab))
                => ret[i].tab.columns[k].notnull = arg[i].tab.columns[k].notnull

\* The column type combinations the Postgres type mapping declares.
Declared(col) ==
    \/ col.custom = None /\ col.size = None
    \/ col.custom = None /\ col.typ \in {"TEXT", "BLOB"} /\ Truthy(col.size)
    \/ col.custom = None /\ col.typ = "INTEGER" /\ Truthy(col.size)
          /\ col.size[1] \in int_map_keys
    \/ col.typ = "TEXT" /\ col.size = None /\ col.custom # None
          /\ col.custom[1].dialect = "postgres"

\* C5: column_model maps the native type create_table rendered for a column
\* of a declared type combination back to the column's type, size and
\* custom info.
C5_RoundTrip ==
    (op = "column_model" /\ Declared(arg.col)) =>
        /\ ret.typ = arg.col.typ
        /\ ret.size = arg.col.size
        /\ ret.custom = arg.col.custom

\* C6: without update values _upsert_sql returns the insert SQL followed by
\* ON CONFLICT (f) DO NOTHING, f the first primary-key field of the table;
\* with update values it returns the insert SQL followed by ON CONFLICT
\* (columns) DO UPDATE SET setsql, the columns being exactly those supplied.
C6_UpsertShape ==
    (op = "upsert_sql" /\ raised = "none") =>
        /\ ret.sql.insert = arg.inssql
        /\ arg.setvals = <<>> =>
              /\ ret.sql.action = "DO NOTHING"
              /\ ret.sql.conflict_target = <<arg.primary[1]>>
        /\ arg.setvals # <<>> =>
              /\ ret.sql.action = "DO UPDATE SET"
              /\ ret.sql.conflict_target = arg.setvals
              /\ ret.sql.set = Some(arg.setsql)

C8_CustomRetained ==
    op = "simplify_model" =>
        \A i \in 1..Len(arg) : \A k \in 1..Len(arg[i].tab.columns) :
            LET col == arg[i].tab.columns[k]
                out == ret[i].tab.columns[k]
            IN  /\ (col.custom # None /\ col.custom[1].dialect = "postgres")
                      => out.custom = col.custom
                /\ (col.custom # None /\ col.custom[1].dialect # "postgres")
                      => out.custom = None

\* The native type the precedence custom > sized > default gives a column.
Precedence(col) ==
    IF col.custom # None /\ col.custom[1].dialect = "postgres"
    THEN NativeType(col.custom[1].info, None)
    ELSE IF Truthy(col.size) /\ col.typ = "TEXT"
    THEN NativeType("varchar", col.size)
    ELSE IF Truthy(col.size) /\ col.typ = "BLOB"
    THEN NativeType("bytea", None)
    ELSE IF Truthy(col.size) /\ col.typ = "INTEGER" /\ col.size[1] \in int_map_keys
    THEN NativeType(int_map(col.size[1]), None)
    ELSE NativeType(type_map(col.typ), None)

\* C9: the native type of every column of the CREATE TABLE statement follows
\* the precedence custom (scoped to postgres) > sized > default.
C9_TypePrecedence ==
    (op = "create_table" /\ sent # <<>>) =>
        \A k \in 1..Len(arg.schema.columns) :
            sent[1].coldefs[k].typ = Precedence(arg.schema.columns[k])

\* C10: the CREATE TABLE statement carries IF NOT EXISTS exactly when
\* create_table is called with ignore_existing = TRUE.
C10_IfNotExists ==
    (op = "create_table" /\ sent # <<>>) =>
        (sent[1].qualifier = "IF NOT EXISTS " <=> arg.ignore_existing)

====
